---- MODULE Spec2Model ----
(***************************************************************************)
(* BBS+ signatures of libzmix (signatures/bbs/signature.rs): the signature *)
(* value and its byte codec, plain and blind signing, unblinding and       *)
(* verification, over a scaled-down algebraic substrate.                   *)
(*                                                                         *)
(* The substrate (amcl_wrapper) is a pairing over groups of prime order r. *)
(* Here r = CurveOrder is a small prime, an element of G1, G2 or GT is     *)
(* written as its discrete logarithm to the group's generator (0 is the    *)
(* identity), the group law is addition mod r, scalar multiplication is    *)
(* multiplication mod r and the pairing of a and b is a * b mod r: a       *)
(* non-degenerate bilinear map of prime order, as the code assumes.        *)
(***************************************************************************)
EXTENDS Integers, Sequences, FiniteSets, TLC

\* ------------------------------------------------------------------ bounds
\* The scalar field has the smallest prime order that is >= MinOrder.
MinOrder == 5
\* Key pairs are generated for capacities 1..MaxCount.
MaxCount == 2
\* A byte of the scaled encoding is a digit 0..MaxByte.
MaxByte == 2

\* ------------------------------------------------------ substrate constants
\* The width in bytes of an encoded scalar (scaled down with the byte).
MODBYTES == 2
\* The width in bytes of an encoded G1 point.
GROUP_G1_SIZE == MODBYTES + 1

\* ------------------------------------------------- the algebraic substrate
IsPrime(n) == n > 1 /\ \A d \in 2..(n - 1) : n % d # 0

CurveOrder == CHOOSE p \in MinOrder..(2 * MinOrder) :
                 IsPrime(p) /\ \A q \in MinOrder..(p - 1) : ~IsPrime(q)

\* FieldElement: a scalar mod the curve order.
FieldElement == 0..(CurveOrder - 1)
\* G1, G2, GT: group elements, by discrete logarithm.
G1 == 0..(CurveOrder - 1)

FieldElement_one == 1
\* G1::new() is the identity, G1::generator() / G2::generator() the base.
G1_new == 0
G1_generator == 1
G2_generator == 1

FAdd(x, y) == (x + y) % CurveOrder
FMul(x, y) == (x * y) % CurveOrder

\* FieldElement::inverse_mut: the multiplicative inverse; the substrate maps
\* zero, which has none, to zero.
Inverse(x) == IF x = 0 THEN 0
              ELSE CHOOSE y \in FieldElement : FMul(x, y) = 1

GAdd(p, q) == (p + q) % CurveOrder
GMul(p, k) == (p * k) % CurveOrder
Pairing(p, q) == (p * q) % CurveOrder

\* GT::ate_2_pairing_cmp(p1, q1, p2, q2): e(p1, q1) == e(p2, q2).
ate_2_pairing_cmp(p1, q1, p2, q2) == Pairing(p1, q1) = Pairing(p2, q2)

\* multi_scalar_mul_const_time / _var_time: sum of points[i] * scalars[i];
\* the two differ in the order of evaluation only.
RECURSIVE MsmFrom(_, _, _)
MsmFrom(points, scalars, i) ==
    IF i > Len(points) THEN G1_new
    ELSE GAdd(GMul(points[i], scalars[i]), MsmFrom(points, scalars, i + 1))

RECURSIVE MsmUpTo(_, _, _)
MsmUpTo(points, scalars, i) ==
    IF i = 0 THEN G1_new
    ELSE GAdd(MsmUpTo(points, scalars, i - 1), GMul(points[i], scalars[i]))

multi_scalar_mul_const_time(points, scalars) == MsmFrom(points, scalars, 1)
multi_scalar_mul_var_time(points, scalars) == MsmUpTo(points, scalars, Len(points))

\* ------------------------------------------------------------ result values
Ok(v) == [ok |-> TRUE, value |-> v]
Err(k, payload) == [ok |-> FALSE, kind |-> k, payload |-> payload]

SigningErrorMessageCountMismatch(expected, actual) ==
    Err("SigningErrorMessageCountMismatch", <<expected, actual>>)
SignatureIncorrectSize(len) == Err("SignatureIncorrectSize", <<len>>)
SignatureValueIncorrectSize == Err("SignatureValueIncorrectSize", <<>>)

\* ------------------------------------------------------------------- keys
\* PublicKey::message_count()
message_count(verkey) == Len(verkey.h)

\* keys::generate(n): n message generators, the commitment base h0, a secret
\* exponent and w = G2 generator ^ secret.
\* Generators and secret exponents are sampled among the non-identity elements
\* with these logarithms.
Gens == {1, 2}

generate(n) ==
    { [verkey |-> [h0 |-> h0, h |-> h, w |-> GMul(G2_generator, x)], signkey |-> x] :
        h0 \in Gens, h \in [1..n -> Gens], x \in Gens }

\* ------------------------------------------------------------- aggregator
\* Faulty variant: the offset is dropped, the messages pair with the leading generators.
prep_vec_for_b_no_offset(public_key, messages, blinding_factor, offset) ==
    [points  |-> <<G1_generator, public_key.h0>>
                   \o [i \in 1..Len(messages) |-> public_key.h[i]],
     scalars |-> <<FieldElement_one, blinding_factor>>
                   \o [i \in 1..Len(messages) |-> messages[i]]]

prep_vec_for_b(public_key, messages, blinding_factor, offset) ==
    [points  |-> <<G1_generator, public_key.h0>>
                   \o [i \in 1..Len(messages) |-> public_key.h[offset + i]],
     scalars |-> <<FieldElement_one, blinding_factor>>
                   \o [i \in 1..Len(messages) |-> messages[i]]]

compute_b_const_time(starting_value, public_key, messages, blinding_factor, offset) ==
    LET pv == prep_vec_for_b(public_key, messages, blinding_factor, offset)
    IN  GAdd(starting_value, multi_scalar_mul_const_time(pv.points, pv.scalars))

compute_b_var_time(starting_value, public_key, messages, blinding_factor, offset) ==
    LET pv == prep_vec_for_b(public_key, messages, blinding_factor, offset)
    IN  GAdd(starting_value, multi_scalar_mul_var_time(pv.points, pv.scalars))

\* Faulty variant: the error carries the actual count first and the expected second.
check_verkey_message_swapped(messages, verkey) ==
    IF Len(messages) # message_count(verkey)
    THEN SigningErrorMessageCountMismatch(Len(messages), message_count(verkey))
    ELSE Ok(<<>>)

check_verkey_message(messages, verkey) ==
    IF Len(messages) # message_count(verkey)
    THEN SigningErrorMessageCountMismatch(message_count(verkey), Len(messages))
    ELSE Ok(<<>>)

\* -------------------------------------------------------------- Signature
NoSig == [none |-> TRUE]

\* Faulty variant: the randomizer e is left out of the signer's exponent.
Signature_new_no_e(msgs, sk, vk, e, s) ==
    LET chk == check_verkey_message(msgs, vk)
    IN  IF ~chk.ok THEN chk
        ELSE LET b   == compute_b_const_time(G1_new, vk, msgs, s, 0)
                 exp == Inverse(sk)
                 a   == GMul(b, exp)
             IN  Ok([a |-> a, e |-> e, s |-> s])

\* Signature::new with the random scalars e and s it draws.
Signature_new(msgs, sk, vk, e, s) ==
    LET chk == check_verkey_message(msgs, vk)
    IN  IF ~chk.ok THEN chk
        ELSE LET b   == compute_b_const_time(G1_new, vk, msgs, s, 0)
                 exp == Inverse(FAdd(sk, e))
                 a   == GMul(b, exp)
             IN  Ok([a |-> a, e |-> e, s |-> s])

\* Faulty variant: the offset is always zero.
committed_offset_zero(msgs, vk) == 0

\* The offset new_with_committed_messages hands to the aggregator.
committed_offset(msgs, vk) == message_count(vk) - Len(msgs)

\* Faulty variant: the aggregate starts from the identity, not from the commitment.
Signature_new_without_commitment(commitment, msgs, sk, vk, e, s) ==
    IF Len(msgs) >= message_count(vk)
    THEN SigningErrorMessageCountMismatch(message_count(vk), Len(msgs))
    ELSE LET b   == compute_b_const_time(G1_new, vk, msgs, s,
                                         message_count(vk) - Len(msgs))
             exp == Inverse(FAdd(sk, e))
             a   == GMul(b, exp)
         IN  Ok([a |-> a, e |-> e, s |-> s])

\* Signature::new_with_committed_messages with the random scalars e and s.
Signature_new_with_committed_messages(commitment, msgs, sk, vk, e, s) ==
    IF Len(msgs) >= message_count(vk)
    THEN SigningErrorMessageCountMismatch(message_count(vk), Len(msgs))
    ELSE LET b   == compute_b_const_time(commitment, vk, msgs, s,
                                         committed_offset(msgs, vk))
             exp == Inverse(FAdd(sk, e))
             a   == GMul(b, exp)
         IN  Ok([a |-> a, e |-> e, s |-> s])

\* Faulty variant: e is cloned from s.
get_unblinded_signature_e_from_s(self, blinding) ==
    [a |-> self.a, s |-> FAdd(self.s, blinding), e |-> self.s]

\* Signature::get_unblinded_signature
get_unblinded_signature(self, blinding) ==
    [a |-> self.a, s |-> FAdd(self.s, blinding), e |-> self.e]

\* Faulty variant: the last message is left out of the recomputed aggregate.
Signature_verify_drop_last(self, msgs, vk) ==
    LET chk == check_verkey_message(msgs, vk)
    IN  IF ~chk.ok THEN chk
        ELSE LET b == compute_b_const_time(G1_new, vk, SubSeq(msgs, 1, Len(msgs) - 1),
                                           self.s, 0)
                 a == GAdd(GMul(G2_generator, self.e), vk.w)
             IN  Ok(ate_2_pairing_cmp(self.a, a, b, G2_generator))

\* Signature::verify
Signature_verify(self, msgs, vk) ==
    LET chk == check_verkey_message(msgs, vk)
    IN  IF ~chk.ok THEN chk
        ELSE LET b == compute_b_const_time(G1_new, vk, msgs, self.s, 0)
                 a == GAdd(GMul(G2_generator, self.e), vk.w)
             IN  Ok(ate_2_pairing_cmp(self.a, a, b, G2_generator))

\* The aggregator each entry point calls once its precondition has passed.
new_aggregator == "compute_b_const_time"
new_with_committed_messages_aggregator == "compute_b_const_time"
verify_aggregator == "compute_b_const_time"

\* The user's commitment to the first k messages under blinding b
\* (h0 * blinding + h[0] * messages[0] + ...).
RECURSIVE Commitment(_, _, _, _)
Commitment(vk, msgs, k, b) ==
    IF k = 0 THEN GMul(vk.h0, b)
    ELSE GAdd(Commitment(vk, msgs, k - 1, b), GMul(vk.h[k], msgs[k]))

\* ------------------------------------------------------------------ codec
Byte == 0..MaxByte
Base == MaxByte + 1

RECURSIVE Pow(_, _)
Pow(b, k) == IF k = 0 THEN 1 ELSE b * Pow(b, k - 1)

\* Big-endian fixed-width encoding of a number, and its value.
ToDigits(x, width) == [i \in 1..width |-> (x \div Pow(Base, width - i)) % Base]

RECURSIVE FromDigits(_)
FromDigits(bs) ==
    IF Len(bs) = 0 THEN 0
    ELSE FromDigits(SubSeq(bs, 1, Len(bs) - 1)) * Base + bs[Len(bs)]

\* FieldElement::to_bytes / from_bytes: MODBYTES bytes; a slice of another
\* width or of a value outside the field does not decode.
FieldElement_to_bytes(x) == ToDigits(x, MODBYTES)
FieldElement_from_bytes(bs) ==
    IF Len(bs) # MODBYTES \/ FromDigits(bs) >= CurveOrder
    THEN Err("SerzDeserzError", <<>>)
    ELSE Ok(FromDigits(bs))

\* G1::to_bytes / from_bytes: GROUP_G1_SIZE bytes; a slice of another width
\* or one that names no point of the group does not decode.
G1_to_bytes(p) == ToDigits(p, GROUP_G1_SIZE)
G1_from_bytes(bs) ==
    IF Len(bs) # GROUP_G1_SIZE \/ FromDigits(bs) >= CurveOrder
    THEN Err("SerzDeserzError", <<>>)
    ELSE Ok(FromDigits(bs))

\* data[lo..hi) of the code, over 1-based sequences.
Slice(data, lo, hi) == SubSeq(data, lo + 1, hi)

\* Faulty variant: e is written after s.
Signature_to_bytes_s_first(self) ==
    G1_to_bytes(self.a) \o FieldElement_to_bytes(self.s) \o FieldElement_to_bytes(self.e)

\* Signature::to_bytes
Signature_to_bytes(self) ==
    G1_to_bytes(self.a) \o FieldElement_to_bytes(self.e) \o FieldElement_to_bytes(self.s)

\* Faulty variant: only a buffer that is too short is refused.
Signature_from_bytes_too_short(data) ==
    LET expected == GROUP_G1_SIZE + MODBYTES * 2
    IN  IF Len(data) < expected THEN SignatureIncorrectSize(Len(data))
        ELSE LET a == G1_from_bytes(Slice(data, 0, GROUP_G1_SIZE))
                 e == FieldElement_from_bytes(
                          Slice(data, GROUP_G1_SIZE, GROUP_G1_SIZE + MODBYTES))
                 s == FieldElement_from_bytes(
                          Slice(data, GROUP_G1_SIZE + MODBYTES, GROUP_G1_SIZE + MODBYTES * 2))
             IN  IF ~a.ok \/ ~e.ok \/ ~s.ok THEN SignatureValueIncorrectSize
                 ELSE Ok([a |-> a.value, e |-> e.value, s |-> s.value])

\* Signature::from_bytes
Signature_from_bytes(data) ==
    LET expected == GROUP_G1_SIZE + MODBYTES * 2
    IN  IF Len(data) # expected THEN SignatureIncorrectSize(Len(data))
        ELSE LET index0 == 0
                 a      == G1_from_bytes(Slice(data, 0, GROUP_G1_SIZE))
                 index1 == index0 + GROUP_G1_SIZE
                 e      == FieldElement_from_bytes(Slice(data, index1, index1 + MODBYTES))
                 index2 == index1 + MODBYTES
                 s      == FieldElement_from_bytes(Slice(data, index2, index2 + MODBYTES))
             IN  IF ~a.ok THEN SignatureValueIncorrectSize
                 ELSE IF ~e.ok THEN SignatureValueIncorrectSize
                 ELSE IF ~s.ok THEN SignatureValueIncorrectSize
                 ELSE Ok([a |-> a.value, e |-> e.value, s |-> s.value])

\* ------------------------------------------------------------------ state
VARIABLES
    verkey,      \* the issuer's public key
    signkey,     \* the issuer's secret key
    messages,    \* the caller's message vector
    user,        \* the user's commitment: [commitment, blinding, hidden], or NoSig
    sig,         \* the signature held, or NoSig
    origin,      \* "none", "plain", "committed", "blind", "failed": what made sig
    unblinded,   \* the result of get_unblinded_signature, or NoSig
    bytes,       \* the byte buffer to decode
    res,         \* the last call: its name, its inputs and its result
    calls        \* the aggregator the last call ran, if any

vars == <<verkey, signkey, messages, user, sig, origin, unblinded, bytes, res, calls>>

\* Message values are sampled from these scalars.
MsgVals == {0, 1}
MsgVecs(maxlen) == UNION { [1..k -> MsgVals] : k \in 0..maxlen }

Fresh ==
    /\ user = NoSig
    /\ sig = NoSig
    /\ origin = "none"
    /\ unblinded = NoSig
    /\ bytes = <<>>
    /\ res = [op |-> "none"]
    /\ calls = <<>>

\* A generated key pair and a message vector of any length up to one more
\* than the key's capacity.
Init ==
    /\ \E n \in 1..MaxCount : \E kp \in generate(n) :
          /\ verkey = kp.verkey
          /\ signkey = kp.signkey
          /\ messages \in MsgVecs(n + 1)
    /\ Fresh

\* The signer signs the whole vector: Signature::new(messages, signkey, verkey).
Sign ==
    /\ origin = "none"
    /\ \E e \in FieldElement, s \in FieldElement :
         LET r == Signature_new(messages, signkey, verkey, e, s)
         IN  /\ res' = [op |-> "new", input |-> messages, result |-> r]
             /\ sig' = IF r.ok THEN r.value ELSE NoSig
             /\ origin' = IF r.ok THEN "plain" ELSE "failed"
             /\ calls' = IF r.ok THEN <<new_aggregator>> ELSE <<>>
    /\ UNCHANGED <<verkey, signkey, messages, user, unblinded, bytes>>

\* The signer is handed some commitment and the vector as the known messages:
\* Signature::new_with_committed_messages(c, messages, signkey, verkey).
SignCommitted ==
    /\ origin = "none"
    /\ \E c \in G1, e \in FieldElement, s \in FieldElement :
         LET r == Signature_new_with_committed_messages(c, messages, signkey, verkey, e, s)
         IN  /\ res' = [op |-> "new_with_committed_messages", commitment |-> c,
                        input |-> messages, result |-> r]
             /\ sig' = IF r.ok THEN r.value ELSE NoSig
             /\ origin' = IF r.ok THEN "committed" ELSE "failed"
             /\ calls' = IF r.ok THEN <<new_with_committed_messages_aggregator>> ELSE <<>>
    /\ UNCHANGED <<verkey, signkey, messages, user, unblinded, bytes>>

\* Anyone verifies the plain signature against any message vector.
Verify ==
    /\ origin = "plain"
    /\ res.op # "verify"
    /\ \E vmsgs \in MsgVecs(message_count(verkey) + 1) :
         LET r == Signature_verify(sig, vmsgs, verkey)
         IN  /\ res' = [op |-> "verify", input |-> vmsgs, result |-> r]
             /\ calls' = IF r.ok THEN <<verify_aggregator>> ELSE <<>>
    /\ UNCHANGED <<verkey, signkey, messages, user, sig, origin, unblinded, bytes>>

\* Calls of the signing and verification entry points on any input.
Next == Sign \/ SignCommitted \/ Verify

Spec == Init /\ [][Next]_vars

\* ------------------------------------------------------------ blind issuance
\* A generated key pair and a user holding a vector of as many messages as
\* the key's capacity.
InitBlind ==
    /\ \E n \in 1..MaxCount : \E kp \in generate(n) :
          /\ verkey = kp.verkey
          /\ signkey = kp.signkey
          /\ messages \in [1..n -> MsgVals]
    /\ Fresh

\* The user hides the first k messages in a commitment under a blinding scalar.
Commit ==
    /\ user = NoSig
    /\ \E k \in 0..message_count(verkey), b \in FieldElement :
         user' = [commitment |-> Commitment(verkey, messages, k, b),
                  blinding |-> b, hidden |-> k]
    /\ res' = [op |-> "commit"]
    /\ UNCHANGED <<verkey, signkey, messages, sig, origin, unblinded, bytes, calls>>

Known == SubSeq(messages, user.hidden + 1, Len(messages))

\* The signer signs the commitment and the known trailing messages.
BlindSign ==
    /\ origin = "none"
    /\ user # NoSig
    /\ \E e \in FieldElement, s \in FieldElement :
         LET r == Signature_new_with_committed_messages(
                      user.commitment, Known, signkey, verkey, e, s)
         IN  /\ res' = [op |-> "new_with_committed_messages",
                        commitment |-> user.commitment, input |-> Known, result |-> r]
             /\ sig' = IF r.ok THEN r.value ELSE NoSig
             /\ origin' = IF r.ok THEN "blind" ELSE "failed"
             /\ calls' = IF r.ok THEN <<new_with_committed_messages_aggregator>> ELSE <<>>
    /\ UNCHANGED <<verkey, signkey, messages, user, unblinded, bytes>>

\* The user unblinds the blind signature with the blinding of the commitment.
Unblind ==
    /\ origin = "blind"
    /\ unblinded = NoSig
    /\ unblinded' = get_unblinded_signature(sig, user.blinding)
    /\ res' = [op |-> "get_unblinded_signature", receiver |-> sig,
               blinding |-> user.blinding]
    /\ calls' = <<>>
    /\ UNCHANGED <<verkey, signkey, messages, user, sig, origin, bytes>>

\* The signature the user holds: the unblinded one once it exists.
Held == IF unblinded # NoSig THEN unblinded ELSE sig

\* The user verifies the signature held against the whole message vector.
VerifyFull ==
    /\ origin = "blind"
    /\ res.op # "verify"
    /\ LET r == Signature_verify(Held, messages, verkey)
       IN  /\ res' = [op |-> "verify", input |-> messages, result |-> r]
           /\ calls' = IF r.ok THEN <<verify_aggregator>> ELSE <<>>
    /\ UNCHANGED <<verkey, signkey, messages, user, sig, origin, unblinded, bytes>>

NextBlind == Commit \/ BlindSign \/ Unblind \/ VerifyFull

SpecBlind == InitBlind /\ [][NextBlind]_vars

\* --------------------------------------------------------------- the codec
Signatures == [a : G1, e : FieldElement, s : FieldElement]
Buffers == UNION { [1..k -> Byte] : k \in 0..(GROUP_G1_SIZE + MODBYTES * 2 + 1) }

\* Either a signature to encode, or nothing yet: a buffer will arrive.
InitCodec ==
    /\ verkey = NoSig
    /\ signkey = 0
    /\ messages = <<>>
    /\ user = NoSig
    /\ sig \in Signatures \cup {NoSig}
    /\ origin = "none"
    /\ unblinded = NoSig
    /\ bytes = <<>>
    /\ res = [op |-> "none"]
    /\ calls = <<>>

\* The signature is encoded: bytes = sig.to_bytes().
Encode ==
    /\ sig # NoSig
    /\ res.op = "none"
    /\ bytes' = Signature_to_bytes(sig)
    /\ res' = [op |-> "to_bytes"]
    /\ UNCHANGED <<verkey, signkey, messages, user, sig, origin, unblinded, calls>>

\* Any buffer arrives from outside.
Receive ==
    /\ sig = NoSig
    /\ res.op = "none"
    /\ bytes' \in Buffers
    /\ res' = [op |-> "received"]
    /\ UNCHANGED <<verkey, signkey, messages, user, sig, origin, unblinded, calls>>

\* The buffer is decoded: Signature::from_bytes(bytes).
Decode ==
    /\ res.op \in {"to_bytes", "received"}
    /\ res' = [op |-> "from_bytes", input |-> bytes, encoded |-> res.op = "to_bytes",
               result |-> Signature_from_bytes(bytes)]
    /\ UNCHANGED <<verkey, signkey, messages, user, sig, origin, unblinded, bytes, calls>>

NextCodec == Encode \/ Receive \/ Decode

SpecCodec == InitCodec /\ [][NextCodec]_vars

\* ================================================================ properties
RECURSIVE SumOver(_, _, _, _)
\* h[first+1] * msgs[1] + ... + h[first+k] * msgs[k]
SumOver(h, msgs, first, k) ==
    IF k = 0 THEN G1_new
    ELSE GAdd(SumOver(h, msgs, first, k - 1), GMul(h[first + k], msgs[k]))

DiffCount(u, v) == Cardinality({ i \in 1..Len(u) : u[i] # v[i] })

MismatchError(expected, actual) ==
    [ok |-> FALSE, kind |-> "SigningErrorMessageCountMismatch",
     payload |-> <<expected, actual>>]

VerifiedPlain == res.op = "verify" /\ origin = "plain"

\* C1 as claimed: a plain signature verifies over the vector it was made for,
\* for every choice of e and s.
C1_EveryChoice ==
    (VerifiedPlain /\ res.input = messages) => res.result = Ok(TRUE)

\* C1 (amended): for a generated key pair of capacity n, a vector of n messages
\* and every choice of e and s with signkey + e # 0, the signature of
\* Signature::new verifies over that vector: verify returns Ok(true).
C1_SignThenVerify ==
    (VerifiedPlain /\ res.input = messages /\ FAdd(signkey, sig.e) # 0)
        => res.result = Ok(TRUE)

C1_Witness ==
    /\ VerifiedPlain /\ res.input = messages /\ FAdd(signkey, sig.e) # 0
    /\ message_count(verkey) = MaxCount
    /\ \A i \in 1..Len(messages) : messages[i] # 0
    /\ res.result = Ok(TRUE)

VerifiedUnblinded == res.op = "verify" /\ origin = "blind" /\ unblinded # NoSig

\* C2 as claimed: the blind signature, once unblinded, verifies over the whole
\* vector, whatever the signer drew.
C2_EveryChoice ==
    (VerifiedUnblinded /\ user.hidden >= 1) => res.result = Ok(TRUE)

\* C2 (amended): with 1 <= k <= n leading messages hidden in the commitment
\* h0^b * PRODUCT h[i]^m[i], the signature of new_with_committed_messages over
\* the trailing messages, unblinded with b, verifies over the whole vector,
\* provided the signer's e has signkey + e # 0.
C2_BlindRoundTrip ==
    (VerifiedUnblinded /\ user.hidden >= 1 /\ FAdd(signkey, unblinded.e) # 0)
        => res.result = Ok(TRUE)

C2_Witness ==
    /\ VerifiedUnblinded /\ FAdd(signkey, unblinded.e) # 0
    /\ user.hidden = 1 /\ message_count(verkey) = MaxCount
    /\ user.blinding # 0 /\ messages[1] # 0
    /\ res.result = Ok(TRUE)

\* The signature verifies over the vector it was made for.
ValidOverMessages == Signature_verify(sig, messages, verkey) = Ok(TRUE)

Tampered ==
    /\ VerifiedPlain /\ ValidOverMessages
    /\ Len(res.input) = Len(messages) /\ res.input # messages

VerifiedBlind == res.op = "verify" /\ origin = "blind" /\ unblinded = NoSig

\* C4 as claimed: the blind signature never verifies before it is unblinded.
C4_NeverBeforeUnblinding == VerifiedBlind => res.result = Ok(FALSE)

\* C4 (amended): verifying the blind signature over the whole vector before
\* it is unblinded returns Ok(false), provided the blinding scalar b is not
\* zero and the signer's e has signkey + e # 0.
C4_BlindRejected ==
    (VerifiedBlind /\ user.blinding # 0 /\ FAdd(signkey, sig.e) # 0)
        => res.result = Ok(FALSE)

C4_Witness ==
    /\ VerifiedBlind /\ user.blinding # 0 /\ FAdd(signkey, sig.e) # 0
    /\ user.hidden = 1 /\ message_count(verkey) = MaxCount
    /\ res.result = Ok(FALSE)

\* C5: Signature::new and Signature::verify on a vector of length L # n return
\* SigningErrorMessageCountMismatch(n, L), expected count first, and produce no
\* signature or boolean; with L = n neither returns an error.
C5_CountPrecondition ==
    res.op \in {"new", "verify"} =>
        LET n == message_count(verkey)
            L == Len(res.input)
        IN  /\ L # n => /\ res.result = MismatchError(n, L)
                        /\ res.op = "new" => sig = NoSig
            /\ L = n => res.result.ok

C5_Witness ==
    /\ res.op = "new" /\ res.input = <<>> /\ sig = NoSig
    /\ message_count(verkey) = MaxCount
    /\ res.result = MismatchError(MaxCount, 0)

\* C6: new_with_committed_messages returns SigningErrorMessageCountMismatch(n, L)
\* exactly when L >= n, and a signature for every L < n, L = 0 included; that
\* signature's aggregate pairs the known messages with the trailing generators
\* h[n-L..n): A * (signkey + e) = commitment + g1 + h0 * s + SUM h[n-L+i] * m[i].
C6_BlindCountPrecondition ==
    res.op = "new_with_committed_messages" =>
        LET n == message_count(verkey)
            L == Len(res.input)
            r == res.result
        IN  /\ L >= n => r = MismatchError(n, L) /\ sig = NoSig
            /\ L < n =>
                 /\ r.ok
                 /\ FAdd(signkey, r.value.e) # 0 =>
                      GMul(r.value.a, FAdd(signkey, r.value.e))
                        = GAdd(res.commitment,
                            GAdd(G1_generator,
                              GAdd(GMul(verkey.h0, r.value.s),
                                   SumOver(verkey.h, res.input, n - L, L))))

C6_Witness ==
    /\ res.op = "new_with_committed_messages" /\ res.result.ok
    /\ message_count(verkey) = MaxCount /\ Len(res.input) = MaxCount - 1
    /\ verkey.h[1] # verkey.h[MaxCount] /\ res.input[Len(res.input)] # 0
    /\ FAdd(signkey, res.result.value.e) # 0

DecodedEncoding == res.op = "from_bytes" /\ res.encoded

\* C7: to_bytes has length GROUP_G1_SIZE + 2 * MODBYTES, laid out as
\* bytes(A) || bytes(e) || bytes(s), and from_bytes of it is Ok of the same
\* signature.
C7_RoundTrip ==
    DecodedEncoding =>
        /\ Len(bytes) = GROUP_G1_SIZE + 2 * MODBYTES
        /\ Slice(bytes, 0, GROUP_G1_SIZE) = G1_to_bytes(sig.a)
        /\ Slice(bytes, GROUP_G1_SIZE, GROUP_G1_SIZE + MODBYTES)
             = FieldElement_to_bytes(sig.e)
        /\ Slice(bytes, GROUP_G1_SIZE + MODBYTES, GROUP_G1_SIZE + 2 * MODBYTES)
             = FieldElement_to_bytes(sig.s)
        /\ res.result = [ok |-> TRUE, value |-> sig]

C7_Witness ==
    /\ DecodedEncoding /\ res.result.ok
    /\ res.result.value = sig
    /\ sig.a # sig.e /\ sig.e # sig.s /\ sig.a # sig.s /\ sig.s = CurveOrder - 1

ValidA(data) == G1_from_bytes(Slice(data, 0, GROUP_G1_SIZE)).ok
ValidE(data) ==
    FieldElement_from_bytes(Slice(data, GROUP_G1_SIZE, GROUP_G1_SIZE + MODBYTES)).ok
ValidS(data) ==
    FieldElement_from_bytes(
        Slice(data, GROUP_G1_SIZE + MODBYTES, GROUP_G1_SIZE + 2 * MODBYTES)).ok

\* C8: from_bytes on a buffer of another length than GROUP_G1_SIZE + 2 * MODBYTES
\* returns SignatureIncorrectSize with the actual length, whatever the bytes
\* are; on a buffer of that length with an A, e or s slice that does not decode
\* it returns SignatureValueIncorrectSize; it returns Ok only when the length is
\* right and the three slices decode.
C8_MalformedDecode ==
    res.op = "from_bytes" =>
        LET data == res.input
            expected == GROUP_G1_SIZE + 2 * MODBYTES
            r == res.result
        IN  IF Len(data) # expected
            THEN r = [ok |-> FALSE, kind |-> "SignatureIncorrectSize",
                      payload |-> <<Len(data)>>]
            ELSE IF ValidA(data) /\ ValidE(data) /\ ValidS(data)
            THEN r.ok
            ELSE r = [ok |-> FALSE, kind |-> "SignatureValueIncorrectSize",
                      payload |-> <<>>]

C8_Witness ==
    /\ res.op = "from_bytes" /\ ~res.encoded
    /\ Len(res.input) = GROUP_G1_SIZE + 2 * MODBYTES
    /\ ValidA(res.input) /\ ValidE(res.input) /\ ~ValidS(res.input)
    /\ res.result.kind = "SignatureValueIncorrectSize"

\* C9: get_unblinded_signature returns a signature with s' = s + blinding in
\* the field and A and e as they were, and leaves the receiver as it was.
C9_UnblindOnlyS ==
    res.op = "get_unblinded_signature" =>
        /\ unblinded.s = (res.receiver.s + res.blinding) % CurveOrder
        /\ unblinded.a = res.receiver.a
        /\ unblinded.e = res.receiver.e
        /\ sig = res.receiver

C9_Witness ==
    /\ res.op = "get_unblinded_signature"
    /\ res.receiver.s + res.blinding > CurveOrder
    /\ res.receiver.e # res.receiver.s
    /\ unblinded.s = res.receiver.s + res.blinding - CurveOrder

\* C10: verify recomputes B with the variable-time aggregator and both signing
\* paths compute B with the constant-time one.
C10_AggregationMode ==
    /\ (res.op = "verify" /\ res.result.ok) => calls = <<"compute_b_var_time">>
    /\ (res.op \in {"new", "new_with_committed_messages"} /\ res.result.ok)
          => calls = <<"compute_b_const_time">>

====
